---- MODULE Spec2Model ----
(***************************************************************************)
(* A model of the `unforgettable` crate (src/src/lib.rs):                  *)
(*   is_unforgettable(pinned)  -- lines 19-23                              *)
(*   is_stack_pointer(pointer) -- lines 26-35                              *)
(*   test()                    -- lines 37-71                              *)
(* The machine is a flat address space holding one call stack per thread   *)
(* and memory that belongs to no stack (heap allocations, statics) below,  *)
(* between and above the stacks.                                           *)
(***************************************************************************)
EXTENDS Integers, Sequences, FiniteSets

\* ------------------------------------------------------------ bounds
\* Number of address slots of one thread's stack.
StackSize == 2
\* Largest number of slots one pushed frame takes.
MaxFrameSize == 1

\* ------------------------------------------------------------ machine
Threads == {1, 2}
Other(t) == 3 - t

\* psm::StackDirection (line 29): the two growth directions.
StackDirection == {"Ascending", "Descending"}

\* Address 0 is the null address. One slot that belongs to no stack lies below,
\* between and above the stacks.
StackLo(t) == 2 + (t - 1) * (StackSize + 1)
StackHi(t) == StackLo(t) + StackSize - 1
Addresses == 0 .. (2 * StackSize + 3)
StackRegion(t) == StackLo(t) .. StackHi(t)
\* Where a heap allocation or a static can be: outside every stack, not null.
NonStack == (Addresses \ {0}) \ UNION {StackRegion(t) : t \in Threads}

\* usize is as wide as a pointer: every address fits.
WordModulus == 2 * StackSize + 4
\* `pointer as *const () as usize` (line 27), `psm::stack_pointer() as usize` (line 28)
AsUsize(p) == p % WordModulus

FrameSizes == 1 .. MaxFrameSize
\* A call that was inlined pushes nothing.
CalleeFrameSizes == 0 .. MaxFrameSize

VARIABLES
    direction,      \* psm::StackDirection::new(): fixed for the build
    frames,         \* per thread: the sizes of the frames on its stack, oldest first
    pc,             \* per thread: where it is in is_unforgettable / is_stack_pointer
    pinned,         \* per thread: the argument of is_unforgettable (line 19)
    pointer,        \* per thread: the local `pointer` of is_stack_pointer (line 27)
    stack_pointer,  \* per thread: the local `stack_pointer` (line 28)
    sp_at_read,     \* per thread: the thread's own stack pointer when line 28 ran
    isp_ret,        \* per thread: what is_stack_pointer returned
    ret,            \* per thread: what is_unforgettable returned
    tpc,            \* test(): position in the block of lines 52-60
    value,          \* test(): the Foo value: where it lives and who owns it
    handle,         \* test(): the pinned handle / the inner handle
    unforgettable,  \* test(): the local of line 41
    WAS_DROPPED     \* test(): the static of line 40

callVars == <<pc, pinned, pointer, stack_pointer, sp_at_read, isp_ret, ret>>
testVars == <<tpc, value, handle, unforgettable, WAS_DROPPED>>
vars == <<direction, frames, pc, pinned, pointer, stack_pointer, sp_at_read,
          isp_ret, ret, tpc, value, handle, unforgettable, WAS_DROPPED>>

RECURSIVE SumSeq(_)
SumSeq(s) == IF s = << >> THEN 0 ELSE Head(s) + SumSeq(Tail(s))

Used(t) == SumSeq(frames[t])
Depth(t) == Len(frames[t])

\* The stack pointer of a stack with no frame on it.
EmptySP(t) == IF direction = "Descending" THEN StackHi(t) + 1 ELSE StackLo(t) - 1
\* The thread's current stack pointer: it moves by a frame's size on each push.
SP(t) == IF direction = "Descending" THEN EmptySP(t) - Used(t) ELSE EmptySP(t) + Used(t)
\* The slots of the thread's stack that live frames occupy.
Live(t) ==
    IF direction = "Descending" THEN SP(t) .. StackHi(t) ELSE StackLo(t) .. SP(t)

\* A stack pointer read from one place for every thread.
psm_stack_pointer_shared(t) == SP(1)
\* psm::stack_pointer() (line 28): the stack pointer of the calling thread.
psm_stack_pointer(t) == SP(t)

\* The address of the handle instead of the address it refers to.
get_ref_handle(p) == p.self
\* pinned.as_ref().get_ref() (line 21): the address of the referenced value.
get_ref(p) == p.target

\* Strict comparisons.
is_stack_pointer_strict(ptr, sp, dir) ==
    IF dir = "Ascending" THEN ptr < sp ELSE ptr > sp
\* The two arms exchanged.
is_stack_pointer_swapped(ptr, sp, dir) ==
    IF dir = "Ascending" THEN ptr >= sp ELSE ptr <= sp
\* The descending comparison whatever the direction.
is_stack_pointer_descending_only(ptr, sp, dir) == ptr >= sp
\* The match of lines 29-34.
is_stack_pointer(ptr, sp, dir) ==
    IF dir = "Ascending" THEN ptr <= sp ELSE ptr >= sp

\* is_unforgettable returns is_stack_pointer's value as it is (line 22).
verdict(b) == b

NoHandle == [self |-> 0, target |-> 0]

\* What a pinned handle held by thread t can refer to: a live local of its own
\* stack, memory outside every stack (a heap allocation, a static), or a live
\* local of another thread's stack lent to it.
Referents(t) == Live(t) \cup NonStack \cup Live(Other(t))
\* The handle itself is a local of the calling frame.
Handles(t) == {[self |-> SP(t), target |-> a] : a \in Referents(t)}

Borrowed(a) == \E t \in Threads : pc[t] # "idle" /\ pinned[t].target = a

TestIdle ==
    /\ tpc = "off"
    /\ value = [state |-> "none", addr |-> 0, origin |-> "none"]
    /\ handle = "none"
    /\ unforgettable = "unset"
    /\ WAS_DROPPED = FALSE

Init ==
    /\ direction \in StackDirection
    /\ frames = [t \in Threads |-> << >>]
    /\ pc = [t \in Threads |-> "idle"]
    /\ pinned = [t \in Threads |-> NoHandle]
    /\ pointer = [t \in Threads |-> 0]
    /\ stack_pointer = [t \in Threads |-> 0]
    /\ sp_at_read = [t \in Threads |-> 0]
    /\ isp_ret = [t \in Threads |-> FALSE]
    /\ ret = [t \in Threads |-> FALSE]
    /\ TestIdle

\* Thread t calls some function: a frame is pushed in the growth direction.
PushFrame(t) ==
    /\ pc[t] = "idle"
    /\ \E n \in FrameSizes :
        /\ Used(t) + n <= StackSize
        /\ frames' = [frames EXCEPT ![t] = Append(@, n)]
    /\ UNCHANGED <<direction, callVars, testVars>>

\* Thread t returns from its newest frame; no handle refers into a dead frame.
PopFrame(t) ==
    /\ pc[t] = "idle"
    /\ Depth(t) >= 1
    /\ LET popped == frames[t][Depth(t)]
           dead == IF direction = "Descending"
                   THEN SP(t) .. (SP(t) + popped - 1)
                   ELSE (SP(t) - popped + 1) .. SP(t)
       IN  \A a \in dead : ~Borrowed(a)
    /\ frames' = [frames EXCEPT ![t] = SubSeq(@, 1, Len(@) - 1)]
    /\ UNCHANGED <<direction, callVars, testVars>>

\* Line 19: is_unforgettable(pinned) is entered.
Enter(t, h) ==
    /\ pc[t] = "idle"
    /\ Depth(t) >= 1
    /\ \E n \in CalleeFrameSizes :
        /\ Used(t) + n <= StackSize
        /\ frames' = [frames EXCEPT ![t] = Append(@, n)]
    /\ pinned' = [pinned EXCEPT ![t] = h]
    /\ pc' = [pc EXCEPT ![t] = "is_unforgettable"]

CallIsUnforgettable(t) ==
    /\ \E h \in Handles(t) : Enter(t, h)
    /\ UNCHANGED <<direction, pointer, stack_pointer, sp_at_read, isp_ret, ret,
                   testVars>>

\* Lines 21-22 and 27: the referent's address is taken, is_stack_pointer is
\* entered and the address is cast to usize.
CallIsStackPointer(t) ==
    /\ pc[t] = "is_unforgettable"
    /\ \E n \in CalleeFrameSizes :
        /\ Used(t) + n <= StackSize
        /\ frames' = [frames EXCEPT ![t] = Append(@, n)]
    /\ pointer' = [pointer EXCEPT ![t] = AsUsize(get_ref(pinned[t]))]
    /\ pc' = [pc EXCEPT ![t] = "is_stack_pointer"]
    /\ UNCHANGED <<direction, pinned, stack_pointer, sp_at_read, isp_ret, ret,
                   testVars>>

\* Line 28: the stack pointer is read.
ReadStackPointer(t) ==
    /\ pc[t] = "is_stack_pointer"
    /\ stack_pointer' = [stack_pointer EXCEPT ![t] = AsUsize(psm_stack_pointer(t))]
    /\ sp_at_read' = [sp_at_read EXCEPT ![t] = SP(t)]
    /\ pc' = [pc EXCEPT ![t] = "match"]
    /\ UNCHANGED <<direction, frames, pinned, pointer, isp_ret, ret, testVars>>

\* Lines 29-35: the comparison; is_stack_pointer returns.
Match(t) ==
    /\ pc[t] = "match"
    /\ isp_ret' = [isp_ret EXCEPT
                     ![t] = is_stack_pointer(pointer[t], stack_pointer[t], direction)]
    /\ frames' = [frames EXCEPT ![t] = SubSeq(@, 1, Len(@) - 1)]
    /\ pc' = [pc EXCEPT ![t] = "is_unforgettable_ret"]
    /\ UNCHANGED <<direction, pinned, pointer, stack_pointer, sp_at_read, ret,
                   testVars>>

\* Lines 22-23: is_unforgettable returns.
Return(t) ==
    /\ pc[t] = "is_unforgettable_ret"
    /\ ret' = [ret EXCEPT ![t] = verdict(isp_ret[t])]
    /\ frames' = [frames EXCEPT ![t] = SubSeq(@, 1, Len(@) - 1)]
    /\ pc' = [pc EXCEPT ![t] = "returned"]
    /\ UNCHANGED <<direction, pinned, pointer, stack_pointer, sp_at_read, isp_ret,
                   testVars>>

\* The caller takes the result and goes on.
Resume(t) ==
    /\ pc[t] = "returned"
    /\ pc' = [pc EXCEPT ![t] = "idle"]
    /\ pinned' = [pinned EXCEPT ![t] = NoHandle]
    /\ pointer' = [pointer EXCEPT ![t] = 0]
    /\ stack_pointer' = [stack_pointer EXCEPT ![t] = 0]
    /\ sp_at_read' = [sp_at_read EXCEPT ![t] = 0]
    /\ isp_ret' = [isp_ret EXCEPT ![t] = FALSE]
    /\ ret' = [ret EXCEPT ![t] = FALSE]
    /\ UNCHANGED <<direction, frames, testVars>>

Next ==
    \E t \in Threads :
        \/ PushFrame(t)
        \/ PopFrame(t)
        \/ CallIsUnforgettable(t)
        \/ CallIsStackPointer(t)
        \/ ReadStackPointer(t)
        \/ Match(t)
        \/ Return(t)
        \/ Resume(t)

Spec == Init /\ [][Next]_vars

\* ------------------------------------------------------------ test()
\* test() (lines 37-71) runs on thread 1. The block of lines 52-60 is open to
\* editing: any sequence of the steps below may be written in it.
TestThread == 1

\* The slots of the newest frame of thread t.
TopFrameSlots(t) ==
    LET n == frames[t][Depth(t)]
    IN  IF direction = "Descending"
        THEN SP(t) .. (SP(t) + n - 1)
        ELSE (SP(t) - n + 1) .. SP(t)

\* The frame stacks test() can be entered on.
FrameStacks ==
    {s \in UNION {[1 .. n -> FrameSizes] : n \in 1 .. StackSize} :
        SumSeq(s) <= StackSize}

OnStack == value.addr \in StackRegion(TestThread)

InitTest ==
    /\ direction \in StackDirection
    /\ frames \in {[t \in Threads |-> IF t = TestThread THEN s ELSE << >>] :
                        s \in FrameStacks}
    /\ pc = [t \in Threads |-> "idle"]
    /\ pinned = [t \in Threads |-> NoHandle]
    /\ pointer = [t \in Threads |-> 0]
    /\ stack_pointer = [t \in Threads |-> 0]
    /\ sp_at_read = [t \in Threads |-> 0]
    /\ isp_ret = [t \in Threads |-> FALSE]
    /\ ret = [t \in Threads |-> FALSE]
    /\ tpc = "block"
    /\ value = [state |-> "none", addr |-> 0, origin |-> "none"]
    /\ handle = "none"
    /\ unforgettable = "unset"
    /\ WAS_DROPPED = FALSE

InBlock == tpc = "block" /\ pc[TestThread] = "idle"

\* Line 53: `let data = Foo;`
LetData ==
    /\ InBlock
    /\ value.state = "none"
    /\ \E a \in TopFrameSlots(TestThread) :
        value' = [state |-> "live", addr |-> a, origin |-> "let"]
    /\ UNCHANGED <<direction, frames, callVars, tpc, handle, unforgettable,
                   WAS_DROPPED>>

\* Line 16: `let pinned = Box::pin(Foo);`
BoxPin ==
    /\ InBlock
    /\ value.state = "none"
    /\ \E a \in NonStack :
        value' = [state |-> "live", addr |-> a, origin |-> "box"]
    /\ handle' = "pin_box"
    /\ UNCHANGED <<direction, frames, callVars, tpc, unforgettable, WAS_DROPPED>>

\* Line 54: `let pinned = Pin::new(&data);` or `Pin::new(inner)` of a Box.
PinNew ==
    /\ InBlock
    /\ value.state = "live"
    /\ \/ OnStack /\ handle = "none" /\ handle' = "pin_ref"
       \/ handle = "inner_box" /\ handle' = "pin_box"
    /\ UNCHANGED <<direction, frames, callVars, tpc, value, unforgettable,
                   WAS_DROPPED>>

\* Line 56: `is_unforgettable(pinned)` is called (`pinned.as_ref()` of a Box).
TestCall ==
    /\ InBlock
    /\ unforgettable = "unset"
    /\ handle \in {"pin_ref", "pin_box"}
    /\ Enter(TestThread, [self |-> SP(TestThread), target |-> value.addr])
    /\ UNCHANGED <<direction, pointer, stack_pointer, sp_at_read, isp_ret, ret,
                   testVars>>

\* Line 56: `unforgettable = ...` takes the returned value.
TestAssign ==
    /\ tpc = "block"
    /\ pc[TestThread] = "returned"
    /\ unforgettable' = IF ret[TestThread] THEN "true" ELSE "false"
    /\ pc' = [pc EXCEPT ![TestThread] = "idle"]
    /\ pinned' = [pinned EXCEPT ![TestThread] = NoHandle]
    /\ pointer' = [pointer EXCEPT ![TestThread] = 0]
    /\ stack_pointer' = [stack_pointer EXCEPT ![TestThread] = 0]
    /\ sp_at_read' = [sp_at_read EXCEPT ![TestThread] = 0]
    /\ isp_ret' = [isp_ret EXCEPT ![TestThread] = FALSE]
    /\ ret' = [ret EXCEPT ![TestThread] = FALSE]
    /\ UNCHANGED <<direction, frames, tpc, value, handle, WAS_DROPPED>>

\* Line 58: `let inner = Pin::into_inner(pinned);`
IntoInner ==
    /\ InBlock
    /\ handle \in {"pin_ref", "pin_box"}
    /\ handle' = IF handle = "pin_ref" THEN "inner_ref" ELSE "inner_box"
    /\ UNCHANGED <<direction, frames, callVars, tpc, value, unforgettable,
                   WAS_DROPPED>>

\* Line 59: `std::mem::forget(inner);` (or of `pinned`). Forgetting a reference
\* leaves the value with its owner; forgetting the owning Box leaks the value.
ForgetHandle ==
    /\ InBlock
    /\ handle # "none"
    /\ handle' = "none"
    /\ value' = IF handle \in {"pin_box", "inner_box"}
                THEN [value EXCEPT !.state = "forgotten"]
                ELSE value
    /\ UNCHANGED <<direction, frames, callVars, tpc, unforgettable, WAS_DROPPED>>

\* `std::mem::forget(data);` written in the block: the local is moved into
\* forget, whose ManuallyDrop never runs Foo::drop. Borrows of it have ended.
ForgetData ==
    /\ InBlock
    /\ value.state = "live"
    /\ OnStack
    /\ value' = [value EXCEPT !.state = "forgotten"]
    /\ handle' = "none"
    /\ UNCHANGED <<direction, frames, callVars, tpc, unforgettable, WAS_DROPPED>>

\* `let inner = Box::new(data);` written in the block: the value moves to the heap.
MoveToHeap ==
    /\ InBlock
    /\ value.state = "live"
    /\ OnStack
    /\ \E a \in NonStack :
        value' = [value EXCEPT !.addr = a, !.origin = "moved"]
    /\ handle' = "inner_box"
    /\ UNCHANGED <<direction, frames, callVars, tpc, unforgettable, WAS_DROPPED>>

\* `let data = *inner;` written in the block: the value moves out of its Box.
MoveToStack ==
    /\ InBlock
    /\ value.state = "live"
    /\ handle = "inner_box"
    /\ \E a \in TopFrameSlots(TestThread) :
        value' = [value EXCEPT !.addr = a, !.origin = "moved"]
    /\ handle' = "none"
    /\ UNCHANGED <<direction, frames, callVars, tpc, unforgettable, WAS_DROPPED>>

\* Line 60: the block ends; every value a local still owns is dropped, and
\* Foo::drop (lines 45-49) stores true in WAS_DROPPED.
EndBlock ==
    /\ InBlock
    /\ tpc' = "done"
    /\ handle' = "none"
    /\ value' = IF value.state = "live" THEN [value EXCEPT !.state = "dropped"]
                ELSE value
    /\ WAS_DROPPED' = (WAS_DROPPED \/ value.state = "live")
    /\ UNCHANGED <<direction, frames, callVars, unforgettable>>

NextTest ==
    \/ LetData
    \/ BoxPin
    \/ PinNew
    \/ TestCall
    \/ CallIsStackPointer(TestThread)
    \/ ReadStackPointer(TestThread)
    \/ Match(TestThread)
    \/ Return(TestThread)
    \/ TestAssign
    \/ IntoInner
    \/ ForgetHandle
    \/ ForgetData
    \/ MoveToHeap
    \/ MoveToStack
    \/ EndBlock

SpecTest == InitTest /\ [][NextTest]_vars

\* ------------------------------------------------------------ claims
AfterCall(t) == pc[t] = "returned"

\* C1: whenever is_unforgettable returned true for the pinned value, the value's
\* destructor has run when the block has ended, whatever was done in the block
\* (the assertion of lines 63-70: `unforgettable` implies `WAS_DROPPED`).
C1_UnforgettableImpliesDropped ==
    (tpc = "done" /\ unforgettable = "true") => WAS_DROPPED

\* C2: for a value in a heap allocation (memory outside every stack),
\* is_unforgettable returns false, wherever the allocation lies and whatever
\* the growth direction.
C2_HeapIsForgettable ==
    \A t \in Threads :
        (AfterCall(t) /\ pinned[t].target \in NonStack) => ret[t] = FALSE

\* C3: for a live local of the calling thread's stack, is_unforgettable returns
\* true, at every call depth and for both growth directions.
C3_StackLocalIsUnforgettable ==
    \A t \in Threads :
        (AfterCall(t) /\ pinned[t].target \in Live(t)) => ret[t] = TRUE

C3_Witness ==
    \E t \in Threads :
        /\ AfterCall(t)
        /\ pinned[t].target \in Live(t)
        /\ ret[t] = TRUE
        /\ direction = "Ascending"
        /\ Depth(t) >= 2

\* C4: the classifier is total and boolean: it is (address >= stack pointer) on a
\* descending stack and (address <= stack pointer) on an ascending one, for every
\* pair; the two directions give opposite results for different values and both
\* give true for equal ones. Every call returns that comparison of its locals.
C4_ComparisonByDirection ==
    /\ \A a \in Addresses, s \in Addresses :
        LET d == is_stack_pointer(AsUsize(a), AsUsize(s), "Descending")
            u == is_stack_pointer(AsUsize(a), AsUsize(s), "Ascending")
        IN  /\ d \in BOOLEAN /\ u \in BOOLEAN
            /\ d = (a >= s)
            /\ u = (a <= s)
            /\ (a # s => d # u)
            /\ (a = s => d /\ u)
    /\ \A t \in Threads :
        pc[t] = "is_unforgettable_ret" =>
            isp_ret[t] = IF direction = "Descending"
                         THEN pointer[t] >= stack_pointer[t]
                         ELSE pointer[t] <= stack_pointer[t]

C4_Witness ==
    \E t \in Threads :
        /\ pc[t] = "is_unforgettable_ret"
        /\ pointer[t] = stack_pointer[t]
        /\ isp_ret[t] = TRUE

\* The side of the stack pointer s that the frames of thread t occupy.
AllocatedSide(t, s) ==
    IF direction = "Descending"
    THEN {a \in StackRegion(t) : a >= s}
    ELSE {a \in StackRegion(t) : a <= s}

\* C5: the classifier returns true only for an address inside the calling thread's
\* stack, between the stack pointer and the stack's starting address.
C5_TrueOnlyInsideOwnStack ==
    \A t \in Threads :
        (AfterCall(t) /\ ret[t] = TRUE) =>
            pinned[t].target \in AllocatedSide(t, sp_at_read[t])

\* C6: for a value constructed in a heap allocation and pinned, is_unforgettable
\* returns false, and with the owning handle forgotten the destructor has not run
\* when the block has ended.
C6_BoxedForgottenNotDropped ==
    (/\ tpc = "done"
     /\ value.origin = "box"
     /\ value.state = "forgotten"
     /\ unforgettable # "unset")
        => (unforgettable = "false" /\ ~WAS_DROPPED)

\* C7: under every interleaving of the threads, a call returns what it returns when
\* run alone: the comparison of its address with the calling thread's own stack
\* pointer, whatever the other thread's stack pointer is or was.
C7_OwnStackPointerOnly ==
    \A t \in Threads :
        AfterCall(t) =>
            ret[t] = IF direction = "Descending"
                     THEN pinned[t].target >= sp_at_read[t]
                     ELSE pinned[t].target <= sp_at_read[t]

C7_Witness ==
    \E t \in Threads :
        /\ AfterCall(t)
        /\ pc[Other(t)] = "match"
        /\ ret[t] = TRUE
        /\ ~is_stack_pointer(pinned[t].target, SP(Other(t)), direction)

InCall(t) == pc[t] \in {"is_stack_pointer", "match", "is_unforgettable_ret", "returned"}

\* C9: is_unforgettable classifies the address the handle refers to, not the
\* address of the handle, and returns the classifier's verdict unchanged.
C9_ClassifiesReferent ==
    \A t \in Threads :
        /\ InCall(t) => pointer[t] = pinned[t].target
        /\ AfterCall(t) => ret[t] = isp_ret[t]

C9_Witness ==
    \E t \in Threads :
        /\ AfterCall(t)
        /\ pinned[t].self \in Live(t)
        /\ pinned[t].target \in NonStack
        /\ ret[t] = FALSE
        /\ is_stack_pointer(pinned[t].self, sp_at_read[t], direction)

\* The verdict thread t gets for address a where its stack pointer now is.
VerdictNow(a, t) == is_stack_pointer(AsUsize(a), AsUsize(psm_stack_pointer(t)), direction)

\* C10: on one thread the verdict for a fixed address is monotonic in the call
\* depth: pushing frames never turns true into false, and popping frames never
\* turns false into true.
C10_MonotonicInDepth ==
    [][\A t \in Threads, a \in Addresses :
        /\ (Depth(t)' > Depth(t) /\ VerdictNow(a, t)) => VerdictNow(a, t)'
        /\ (Depth(t)' < Depth(t) /\ ~VerdictNow(a, t)) => ~VerdictNow(a, t)']_vars

C10_Witness ==
    \E t \in Threads :
        /\ Depth(t) >= 2
        /\ frames[t][Depth(t)] >= 1
        /\ VerdictNow(SP(t), t)
        /\ ~is_stack_pointer(SP(t), SP(t) + (IF direction = "Descending" THEN 1 ELSE -1),
                             direction)
====
